---------------------------- MODULE Spec2Model ----------------------------
(***************************************************************************)
(* State-machine model of DevSetupGUI (src/dev-setup-gui.py): the          *)
(* constructor, the foreground (Tk main-loop) handlers, and the worker     *)
(* threads that start_installation creates to execute run_installation.    *)
(*                                                                         *)
(* Threading.  Handlers run on the foreground thread, one at a time.  A    *)
(* worker's plain Python statements (list.append, attribute stores) run at *)
(* any moment; a worker's Tk calls are handed to the foreground thread and *)
(* are served only while that thread sits in an event loop (mainloop or a  *)
(* modal dialog), never in the middle of a handler's straight-line code.   *)
(*                                                                         *)
(* Strings are TLA+ strings, built with \o as the f-strings build them.    *)
(***************************************************************************)
EXTENDS Integers, Sequences, FiniteSets, TLC

(* ------------------------------ bounds --------------------------------- *)
\* threads that start_installation may create in one behaviour
MaxRuns == 2
\* output lines one provisioning process may emit
MaxLines == 1
\* the same, in the specification of the long-running provisioning script
MaxLinesLong == 2
\* stacks in a configuration file
MaxStacks == 2
\* threads created in the specifications that also run the log handlers or
\* change the options
MaxRunsShort == 1

\* datetime.now() in seconds since midnight: 12:34:56.  A behaviour of the
\* model takes place within one second of the wall clock.
StartTime == 45296

(* --------------------------- program constants ------------------------- *)
Managers == {"choco", "scoop", "winget"}
PmChoices == {"auto"} \cup Managers

(* ------------------------- environment inputs -------------------------- *)
\* A text read from a child process: leading blanks, body, trailing blanks.
\* The i-th line a provisioning process writes; odd lines are indented.
OutputLine(i) ==
  <<IF i % 2 = 1 THEN "  " ELSE "", "step " \o ToString(i), "\n">>
RawVersions == { <<"", "2.2.2", "\n">>, <<"v", "1.6", "\n">> }
ExitCodes == {0, 1}
ProbeOutcomes ==
  [kind : {"not_found", "timeout"}, returncode : {0}, stdout : {<<"", "", "">>}]
    \cup [kind : {"exited"}, returncode : {0, 1}, stdout : RawVersions]
ErrToggles == "main thread is not in main loop"
ErrPopen == "[WinError 2] The system cannot find the file specified"
ErrRead == "'charmap' codec can't decode byte 0x81"
ErrWait == "[WinError 6] The handle is invalid"

StackNames == {"x", "y"}
EnabledValues == {"true", "false", "absent"}
PackageLists == { <<>>, <<"a", "b">> }
\* an optional key of a stack: <<>> when absent, else <<its list>>
PythonPackageLists == { <<>>, << <<"p", "q">> >> }
VscodeExtensionLists == { <<>>, << <<"e">> >> }
StackConfigs ==
  [name : StackNames, enabled : EnabledValues, packages : PackageLists,
   pythonPackages : PythonPackageLists, vscodeExtensions : VscodeExtensionLists]

RECURSIVE SeqsUpTo(_, _)
SeqsUpTo(S, n) ==
  IF n = 0 THEN { <<>> }
  ELSE LET shorter == SeqsUpTo(S, n - 1)
       IN shorter \cup { Append(s, x) : s \in shorter, x \in S }

DistinctNames(s) == \A i, j \in 1..Len(s) : i /= j => s[i].name /= s[j].name

EmptyConfig == [has_stacks |-> FALSE, stacks |-> <<>>]
\* what json.load may return for a well-formed config.json
ValidConfigs ==
  { EmptyConfig } \cup
  { [has_stacks |-> TRUE, stacks |-> s] :
      s \in { t \in SeqsUpTo(StackConfigs, MaxStacks) : DistinctNames(t) } }
ConfigFiles ==
  [kind : {"missing", "corrupt"}, content : {EmptyConfig}]
    \cup [kind : {"valid"}, content : ValidConfigs]

(* ------------------------------ state ---------------------------------- *)
VARIABLES
  phase,             \* position of the constructor / "mainloop" / "aborted"
  config_file,       \* config.json as found on disk
  probes,            \* what each version probe did
  config, package_managers, available_stacks,
  is_installing, installation_log,
  log_text, stack_listbox, pm_status,
  install_btn, progress, status_text, status_label,
  pm_var, debug_var, logging_var,
  threads,           \* the worker threads, in creation order
  fg,                \* position of the foreground thread
  now,               \* datetime.now(), seconds since midnight
  max_lines,         \* the most lines a provisioning process writes
  call_odd,          \* start_installation was called as a method an odd
                     \* number of times
  fresh,             \* refresh_log has returned and no log_message call,
                     \* clear or selection of another handler began since
  selection,         \* stack_listbox.curselection(), as a set of positions
  stack_details      \* the text of the stack_details widget

startupVars == <<phase, config_file, probes, config, package_managers,
                 available_stacks, stack_listbox, pm_status>>
logVars == <<installation_log, log_text>>
runVars == <<is_installing, install_btn, progress, status_text, status_label,
             threads, call_odd>>
optionVars == <<pm_var, debug_var, logging_var>>
stackVars == <<selection, stack_details>>
envVars == <<now, max_lines>>
vars == <<startupVars, logVars, runVars, optionVars, stackVars, fg, envVars, fresh>>

(* --------------------------- pure helpers ------------------------------ *)
Last(s) == s[Len(s)]

Pad2(n) == IF n < 10 THEN "0" \o ToString(n) ELSE ToString(n)
\* datetime.strftime("%H:%M:%S") of a clock reading in seconds
Strftime(t) ==
  Pad2((t \div 3600) % 24) \o ":" \o Pad2((t \div 60) % 60) \o ":" \o Pad2(t % 60)

\* str.strip() of a text given as <<leading blanks, body, trailing blanks>>
Strip(raw) == raw[2]

\* the f-string of log_message
LogEntry(t, message) == "[" \o Strftime(t) \o "] " \o message \o "\n"

\* mutant: the returncode test of lines 409, 418, 427 is missing
Detected_any_returncode(pr) ==
  LET found == { m \in Managers : pr[m].kind = "exited" }
  IN [m \in found |-> Strip(pr[m].stdout)]

\* the registry after the three probes of auto_detect_package_managers
Detected(pr) ==
  LET found == { m \in Managers :
                   pr[m].kind = "exited" /\ pr[m].returncode = 0 }
  IN [m \in found |-> Strip(pr[m].stdout)]

RECURSIVE JoinFrom(_, _, _)
JoinFrom(s, sep, i) ==
  IF i > Len(s) THEN ""
  ELSE IF i = Len(s) THEN s[i]
  ELSE s[i] \o sep \o JoinFrom(s, sep, i + 1)
\* sep.join(s)
Join(s, sep) == JoinFrom(s, sep, 1)

\* the text of pm_status: the managers in insertion order choco, scoop, winget
PmStatusText(reg) ==
  LET order == <<"choco", "scoop", "winget">>
      RECURSIVE Items(_)
      Items(i) == IF i > 3 THEN <<>>
                  ELSE IF order[i] \in DOMAIN reg
                       THEN <<order[i] \o ": " \o reg[order[i]]>> \o Items(i + 1)
                       ELSE Items(i + 1)
      pm_text == Join(Items(1), " | ")
  IN IF pm_text /= "" THEN pm_text ELSE "No package managers detected"

RECURSIVE EnabledNames(_)
\* the names load_available_stacks inserts into the listbox
EnabledNames(stacks) ==
  IF stacks = <<>> THEN <<>>
  ELSE (IF Head(stacks).enabled /= "false" THEN <<Head(stacks).name>> ELSE <<>>)
         \o EnabledNames(Tail(stacks))

\* a thread that has returned from run_installation: its locals are gone
DoneThread ==
  [pc |-> "done", pending |-> <<>>, choice |-> "", pm |-> "", cmd |-> <<>>,
   line |-> <<"", "", "">>, nread |-> 0, returncode |-> <<>>, exc |-> <<>>,
   wrote |-> <<>>, unread |-> FALSE, proc |-> "none"]

\* a thread as threading.Thread(target=self.run_installation).start() makes it.
\* unread: the thread has stopped reading while a line of its process was
\* still to be read; proc: "none" before Popen has returned, "spawned" from
\* then on, "reaped" once process.wait() has returned the exit code.  A
\* spawned process may be running or may have exited.
NewThread ==
  [pc |-> "l474", pending |-> <<>>, choice |-> "", pm |-> "", cmd |-> <<>>,
   line |-> <<"", "", "">>, nread |-> 0, returncode |-> <<>>, exc |-> <<>>,
   wrote |-> <<>>, unread |-> FALSE, proc |-> "none"]

(* ------------------------- the constructor ----------------------------- *)
\* lines 20-30 of __init__, before load_config
InitStartup ==
  /\ phase = "load_config"
  /\ config_file \in ConfigFiles
  /\ probes = [m \in Managers |-> [kind |-> "not_found", returncode |-> 0,
                                  stdout |-> <<"", "", "">>]]
  /\ config = EmptyConfig
  /\ package_managers = << >>
  /\ available_stacks = <<>>
  /\ is_installing = FALSE
  /\ installation_log = <<>>
  /\ log_text = <<>>
  /\ stack_listbox = <<>>
  /\ pm_status = ""
  /\ install_btn = "normal"
  /\ progress = [packed |-> FALSE, running |-> FALSE]
  /\ status_text = "Ready to setup your development environment"
  /\ status_label = "Ready"
  /\ pm_var = "auto"
  /\ debug_var = FALSE
  /\ logging_var = TRUE
  /\ threads = <<>>
  /\ fg = [op |-> "idle", i |-> 0]
  /\ now = StartTime
  /\ max_lines = MaxLines
  /\ call_odd = FALSE
  /\ fresh = FALSE
  /\ selection = {}
  /\ stack_details = ""

\* load_config.  A corrupt file reaches log_message at line 396 while
\* self.log_text does not exist yet: the entry is appended at line 571 and
\* line 572 raises AttributeError out of the handler and out of __init__.
load_config ==
  /\ phase = "load_config"
  /\ CASE config_file.kind = "missing" ->
            /\ config' = EmptyConfig
            /\ phase' = "create_widgets"
            /\ UNCHANGED installation_log
       [] config_file.kind = "valid" ->
            /\ config' = config_file.content
            /\ phase' = "create_widgets"
            /\ UNCHANGED installation_log
       [] config_file.kind = "corrupt" ->
            /\ installation_log' =
                 Append(installation_log,
                        LogEntry(now, "Error loading config: Expecting value"))
            /\ phase' = "aborted"
            /\ UNCHANGED config
  /\ UNCHANGED <<config_file, probes, package_managers, available_stacks,
                 stack_listbox, pm_status, log_text, runVars, optionVars, fg, envVars,
                 stackVars, fresh>>

\* configure_styles and create_widgets: the widgets get their initial texts
create_widgets ==
  /\ phase = "create_widgets"
  /\ phase' = "auto_detect"
  /\ status_label' = "Ready"
  /\ status_text' = "Ready to setup your development environment"
  /\ progress' = [packed |-> FALSE, running |-> FALSE]
  /\ install_btn' = "normal"
  /\ pm_var' = "auto"
  /\ debug_var' = FALSE
  /\ logging_var' = TRUE
  /\ log_text' = <<>>
  /\ stack_listbox' = <<>>
  /\ pm_status' = ""
  /\ selection' = {}
  /\ stack_details' = ""
  /\ UNCHANGED <<config_file, probes, config, package_managers, available_stacks,
                 is_installing, installation_log, threads, call_odd, fg, envVars, fresh>>

auto_detect_package_managers ==
  /\ phase = "auto_detect"
  /\ \E pr \in [Managers -> ProbeOutcomes] :
       /\ probes' = pr
       /\ package_managers' = Detected(pr)
       /\ pm_status' = PmStatusText(Detected(pr))
  /\ phase' = "load_stacks"
  /\ UNCHANGED <<config_file, config, available_stacks, stack_listbox,
                 logVars, runVars, optionVars, fg, envVars, stackVars, fresh>>

load_available_stacks ==
  /\ phase = "load_stacks"
  /\ IF config.has_stacks
       THEN /\ available_stacks' = config.stacks
            /\ stack_listbox' = EnabledNames(config.stacks)
       ELSE UNCHANGED <<available_stacks, stack_listbox>>
  /\ phase' = "mainloop"
  /\ UNCHANGED <<config_file, probes, config, package_managers, pm_status,
                 logVars, runVars, optionVars, fg, envVars, stackVars, fresh>>

NextStartup ==
  \/ load_config
  \/ create_widgets
  \/ auto_detect_package_managers
  \/ load_available_stacks

SpecStartup == InitStartup /\ [][NextStartup]_vars


(* ------------------- the running application: Init --------------------- *)
\* The constructor's result, as a function of what it found on disk and of
\* what the three probes did.
Constructed(cf, pr) ==
  /\ phase = "mainloop"
  /\ config_file = cf
  /\ probes = pr
  /\ config = cf.content
  /\ package_managers = Detected(pr)
  /\ pm_status = PmStatusText(Detected(pr))
  /\ available_stacks = cf.content.stacks
  /\ stack_listbox = EnabledNames(cf.content.stacks)
  /\ is_installing = FALSE
  /\ installation_log = <<>>
  /\ log_text = <<>>
  /\ install_btn = "normal"
  /\ progress = [packed |-> FALSE, running |-> FALSE]
  /\ status_text = "Ready to setup your development environment"
  /\ status_label = "Ready"
  /\ pm_var = "auto"
  /\ debug_var = FALSE
  /\ logging_var = TRUE
  /\ threads = <<>>
  /\ fg = [op |-> "idle", i |-> 0]
  /\ call_odd = FALSE
  /\ fresh = FALSE
  /\ selection = {}
  /\ stack_details = ""

NotFound == [kind |-> "not_found", returncode |-> 0, stdout |-> <<"", "", "">>]
Found == [kind |-> "exited", returncode |-> 0, stdout |-> <<"", "2.2.2", "\n">>]
\* the application started without config.json and with no package manager
InitProbes == { [m \in Managers |-> NotFound] }
InitConfigFiles == { cf \in ConfigFiles : cf.kind = "missing" }
Init ==
  /\ now = StartTime
  /\ max_lines = MaxLines
  /\ \E cf \in InitConfigFiles, pr \in InitProbes : Constructed(cf, pr)

\* the application started without config.json and with any of the eight
\* sets of package managers installed
InitOptions ==
  /\ now = StartTime
  /\ max_lines = MaxLines
  /\ \E cf \in InitConfigFiles, pr \in [Managers -> {NotFound, Found}] :
       Constructed(cf, pr)

(* ------------------------ foreground handlers -------------------------- *)
Idle == phase = "mainloop" /\ fg.op = "idle"
\* the foreground thread is in an event loop and serves calls of other threads
TkReady ==
  /\ phase = "mainloop"
  /\ fg.op \in {"idle", "clear_log"}
ToIdle == fg' = [op |-> "idle", i |-> 0]

\* mutant: the entry is put at the head of the list
log_message_at_head(message) ==
  /\ installation_log' = <<LogEntry(now, message)>> \o installation_log
  /\ log_text' = Append(log_text, LogEntry(now, message))
  /\ fresh' = FALSE

\* log_message on the foreground thread, lines 568-574
log_message(message) ==
  /\ installation_log' = Append(installation_log, LogEntry(now, message))
  /\ log_text' = Append(log_text, LogEntry(now, message))
  /\ fresh' = FALSE

\* mutant: the guard of lines 458-459 is missing
start_installation_unguarded ==
  /\ is_installing' = TRUE
  /\ install_btn' = "disabled"
  /\ progress' = [packed |-> TRUE, running |-> TRUE]
  /\ threads' = Append(threads, NewThread)

\* start_installation, lines 458-469
start_installation ==
  IF is_installing
    THEN UNCHANGED <<is_installing, install_btn, progress, threads>>
    ELSE /\ is_installing' = TRUE
         /\ install_btn' = "disabled"
         /\ progress' = [packed |-> TRUE, running |-> TRUE]
         /\ threads' = Append(threads, NewThread)

\* a click on the Start Installation button (line 221): a disabled ttk button
\* does not invoke its command
click_install_btn ==
  /\ Idle
  /\ install_btn = "normal"
  /\ Len(threads) < MaxRuns
  /\ start_installation
  /\ UNCHANGED <<startupVars, logVars, status_text, status_label, optionVars,
                 fg, envVars, stackVars, fresh, call_odd>>

\* the same click, in the specifications bounded by MaxRunsShort
click_install_btn_short ==
  /\ Len(threads) < MaxRunsShort
  /\ click_install_btn

\* start_installation called as a method, whatever the button's state
call_start_installation ==
  /\ Idle
  /\ is_installing \/ Len(threads) < MaxRuns
  /\ call_odd' = ~call_odd
  /\ start_installation
  /\ UNCHANGED <<startupVars, logVars, status_text, status_label, optionVars,
                 fg, envVars, stackVars, fresh>>

\* the same call, in the specification bounded by MaxRunsShort
call_start_installation_short ==
  /\ is_installing \/ Len(threads) < MaxRunsShort
  /\ call_start_installation

select_package_manager ==
  /\ Idle
  /\ \E c \in PmChoices \ {pm_var} : pm_var' = c
  /\ UNCHANGED <<startupVars, logVars, runVars, debug_var, logging_var, fg,
                 envVars, stackVars, fresh>>

\* refresh_log: line 583, then one turn of the loop of lines 584-585 per step;
\* the step that finds the iterator exhausted returns
refresh_log_delete ==
  /\ Idle
  /\ log_text' = <<>>
  /\ fg' = [op |-> "refresh_log", i |-> 1]
  /\ fresh' = FALSE
  /\ UNCHANGED <<startupVars, installation_log, runVars, optionVars, envVars, stackVars>>
refresh_log_loop ==
  /\ phase = "mainloop" /\ fg.op = "refresh_log"
  /\ IF fg.i <= Len(installation_log)
       THEN /\ log_text' = Append(log_text, installation_log[fg.i])
            /\ fg' = [fg EXCEPT !.i = fg.i + 1]
            /\ UNCHANGED fresh
       ELSE /\ ToIdle
            /\ fresh' = TRUE
            /\ UNCHANGED log_text
  /\ UNCHANGED <<startupVars, installation_log, runVars, optionVars, envVars, stackVars>>

\* clear_log: the askyesno dialog opens (line 600), is answered, and on "yes"
\* lines 601-602 run, then line 603
clear_log_ask ==
  /\ Idle
  /\ fg' = [op |-> "clear_log", i |-> 0]
  /\ UNCHANGED <<startupVars, logVars, runVars, optionVars, envVars, stackVars, fresh>>
\* mutant: the answer of the dialog is not looked at
clear_log_answer_ignored ==
  /\ phase = "mainloop" /\ fg.op = "clear_log"
  /\ \E yes \in BOOLEAN :
       /\ installation_log' = <<>>
       /\ log_text' = <<>>
       /\ fresh' = FALSE
       /\ IF yes THEN fg' = [op |-> "clear_log_603", i |-> 0] ELSE ToIdle
  /\ UNCHANGED <<startupVars, runVars, optionVars, envVars, stackVars>>

clear_log_answer ==
  /\ phase = "mainloop" /\ fg.op = "clear_log"
  /\ \E yes \in BOOLEAN :
       IF yes
         THEN /\ installation_log' = <<>>
              /\ log_text' = <<>>
              /\ fresh' = FALSE
              /\ fg' = [op |-> "clear_log_603", i |-> 0]
         ELSE /\ ToIdle
              /\ UNCHANGED <<logVars, fresh>>
  /\ UNCHANGED <<startupVars, runVars, optionVars, envVars, stackVars>>
clear_log_603 ==
  /\ phase = "mainloop" /\ fg.op = "clear_log_603"
  /\ log_message("Log cleared")
  /\ ToIdle
  /\ UNCHANGED <<startupVars, runVars, optionVars, envVars, stackVars>>

\* show_stack_details, lines 554-561: the text put into stack_details
show_stack_details(stack_name, stack_config) ==
  "Stack: " \o stack_name \o "\n\n"
    \o "Packages: " \o Join(stack_config.packages, ", ") \o "\n\n"
    \o (IF stack_config.pythonPackages /= <<>>
          THEN "Python Packages: "
                 \o Join(stack_config.pythonPackages[1], ", ") \o "\n\n"
          ELSE "")
    \o (IF stack_config.vscodeExtensions /= <<>>
          THEN "VS Code Extensions: "
                 \o Join(stack_config.vscodeExtensions[1], ", ") \o "\n\n"
          ELSE "")

\* the least element of a set of listbox positions: curselection()[0]
First(S) == CHOOSE i \in S : \A j \in S : i <= j

\* on_stack_select, lines 545-550 and 563-564, for the selection sel
on_stack_select(sel) ==
  IF sel /= {}
    THEN LET stack_name == stack_listbox[First(sel)]
             found == { k \in 1..Len(available_stacks) :
                          available_stacks[k].name = stack_name }
         IN IF found /= {}
              THEN stack_details' =
                     show_stack_details(stack_name,
                                        available_stacks[First(found)])
              ELSE UNCHANGED stack_details
    ELSE UNCHANGED stack_details

\* a click on the item at position i of the stack listbox: in selectmode
\* MULTIPLE (line 250) the click toggles the item, and the <<ListboxSelect>>
\* event that follows runs on_stack_select (line 269)
click_stack_listbox ==
  /\ Idle
  /\ \E i \in 1..Len(stack_listbox) :
       /\ selection' = IF i \in selection THEN selection \ {i}
                                          ELSE selection \cup {i}
       /\ on_stack_select(selection')
  /\ UNCHANGED <<startupVars, logVars, runVars, optionVars, fg, envVars, fresh>>

(* ----------------- the worker thread: run_installation ----------------- *)
Threads == 1..Len(threads)
Running(w) == threads[w].pc /= "done"
SetThread(w, t) == threads' = [threads EXCEPT ![w] = t]

\* mutant: scoop is tested before winget
detect_best_package_manager_scoop_first(registry) ==
  IF "choco" \in DOMAIN registry THEN "choco"
  ELSE IF "scoop" \in DOMAIN registry THEN "scoop"
  ELSE IF "winget" \in DOMAIN registry THEN "winget"
  ELSE "winget"

\* detect_best_package_manager, lines 522-529
detect_best_package_manager(registry) ==
  IF "choco" \in DOMAIN registry THEN "choco"
  ELSE IF "winget" \in DOMAIN registry THEN "winget"
  ELSE IF "scoop" \in DOMAIN registry THEN "scoop"
  ELSE "winget"

\* lines 478-480: the manager for the value read from pm_var
SelectedManager(choice, registry) ==
  IF choice = "auto" THEN detect_best_package_manager(registry) ELSE choice

\* lines 483-492
Command(pm, debug, logging) ==
  <<"powershell", "-ExecutionPolicy", "Bypass", "-File", "setup.ps1",
    "-PackageManager", pm>>
    \o (IF debug THEN <<"-Debug">> ELSE <<>>)
    \o (IF logging THEN <<"-Verbose">> ELSE <<>>)

\* mutant: the failure entry leaves the exit code out
WorkerMessage_without_code(t) ==
  CASE t.pc = "l474" -> "Starting installation..."
    [] t.pc = "l499" -> Strip(t.line)
    [] t.pc = "l505" -> "Installation completed successfully!"
    [] t.pc = "l508" -> "Installation failed"
    [] t.pc = "l512" -> "Error during installation: " \o t.exc[1]

\* the message of the log_message call at each line of run_installation
WorkerMessage(t) ==
  CASE t.pc = "l474" -> "Starting installation..."
    [] t.pc = "l499" -> Strip(t.line)
    [] t.pc = "l505" -> "Installation completed successfully!"
    [] t.pc = "l508" -> "Installation failed with code " \o ToString(t.returncode[1])
    [] t.pc = "l512" -> "Error during installation: " \o t.exc[1]
LogPcs == {"l474", "l499", "l505", "l508", "l512"}
AfterLog(pc) ==
  CASE pc = "l474" -> "l475"
    [] pc = "l499" -> "l498"
    [] pc = "l505" -> "l506"
    [] pc = "l508" -> "l509"
    [] pc = "l512" -> "l513"

\* the status of the update_status call at each line of run_installation
WorkerStatus(pc) ==
  CASE pc = "l475" -> "Installing packages..."
    [] pc = "l506" -> "Installation completed"
    [] pc = "l509" -> "Installation failed"
    [] pc = "l513" -> "Installation error"
StatusPcs == {"l475", "l506", "l509", "l513"}
AfterStatus(pc) == IF pc = "l475" THEN "l478" ELSE "l515"

\* an exception raised inside the try block: control goes to line 511
Raise(t, message) == [t EXCEPT !.pc = "l512", !.exc = <<message>>]

\* log_message on a worker, lines 568-571: the entry joins the list
worker_log_append(w) ==
  /\ threads[w].pc \in LogPcs
  /\ threads[w].pending = <<>>
  /\ LET message == WorkerMessage(threads[w])
         log_entry == LogEntry(now, message)
     IN /\ installation_log' = Append(installation_log, log_entry)
        /\ SetThread(w, [threads[w] EXCEPT !.pending = <<log_entry>>,
                                           !.wrote = Append(@, message)])
  /\ fresh' = FALSE
  /\ UNCHANGED <<startupVars, log_text, is_installing, install_btn, progress,
                 status_text, status_label, call_odd, optionVars, fg, envVars, stackVars>>

\* log_message on a worker, lines 572-574 (and line 500 after line 499): the
\* Tk calls, served by the foreground thread
worker_log_insert(w) ==
  /\ TkReady
  /\ threads[w].pc \in LogPcs
  /\ threads[w].pending /= <<>>
  /\ log_text' = Append(log_text, threads[w].pending[1])
  /\ SetThread(w, [threads[w] EXCEPT !.pending = <<>>, !.pc = AfterLog(@)])
  /\ UNCHANGED <<startupVars, installation_log, is_installing, install_btn,
                 progress, status_text, status_label, call_odd, optionVars, fg,
                 envVars, stackVars, fresh>>

\* update_status on a worker, lines 578-579
worker_update_status(w) ==
  /\ TkReady
  /\ threads[w].pc \in StatusPcs
  /\ status_text' = WorkerStatus(threads[w].pc)
  /\ status_label' = IF is_installing THEN "Working" ELSE "Ready"
  /\ SetThread(w, [threads[w] EXCEPT !.pc = AfterStatus(@)])
  /\ UNCHANGED <<startupVars, logVars, is_installing, install_btn, progress,
                 call_odd, optionVars, fg, envVars, stackVars, fresh>>

\* lines 478-492: the three Tk variables are read and the command is built
run_build_command(w) ==
  /\ TkReady
  /\ threads[w].pc = "l478"
  /\ LET pm == SelectedManager(pm_var, package_managers)
     IN SetThread(w, [threads[w] EXCEPT
                        !.pc = "l495", !.choice = pm_var, !.pm = pm,
                        !.cmd = Command(pm, debug_var, logging_var)])
  /\ UNCHANGED <<startupVars, logVars, is_installing, install_btn, progress,
                 status_text, status_label, call_odd, optionVars, fg, envVars,
                 stackVars, fresh>>

\* a Tk variable's get() raises
run_build_command_raises(w) ==
  /\ threads[w].pc = "l478"
  /\ SetThread(w, Raise(threads[w], ErrToggles))
  /\ UNCHANGED <<startupVars, logVars, is_installing, install_btn, progress,
                 status_text, status_label, call_odd, optionVars, fg, envVars,
                 stackVars, fresh>>

\* line 495: subprocess.Popen starts the process, or raises
run_popen(w) ==
  /\ threads[w].pc = "l495"
  /\ \/ SetThread(w, [threads[w] EXCEPT !.pc = "l498", !.proc = "spawned"])
     \/ SetThread(w, Raise(threads[w], ErrPopen))
  /\ UNCHANGED <<startupVars, logVars, is_installing, install_btn, progress,
                 status_text, status_label, call_odd, optionVars, fg, envVars,
                 stackVars, fresh>>

\* mutant: the loop may be left although the pipe holds another line
run_read_line_stops_early(w) ==
  /\ threads[w].pc = "l498"
  /\ \/ /\ threads[w].nread < max_lines
        /\ SetThread(w, [threads[w] EXCEPT
                           !.pc = "l499", !.nread = @ + 1,
                           !.line = OutputLine(threads[w].nread + 1)])
     \/ SetThread(w, [threads[w] EXCEPT !.pc = "l502"])
     \/ /\ threads[w].nread < max_lines
        /\ SetThread(w, [threads[w] EXCEPT !.pc = "l502", !.unread = TRUE])
     \/ /\ threads[w].nread < max_lines
        /\ SetThread(w, [Raise(threads[w], ErrRead) EXCEPT !.unread = TRUE])
  /\ UNCHANGED <<startupVars, logVars, is_installing, install_btn, progress,
                 status_text, status_label, call_odd, optionVars, fg, envVars,
                 stackVars, fresh>>

\* line 498, one of: the process has written another line and the iterator
\* yields it; the process has closed its pipe with every line read, and the
\* loop ends; the process has written another line that cannot be decoded,
\* and the iterator raises
run_read_line(w) ==
  /\ threads[w].pc = "l498"
  /\ \/ /\ threads[w].nread < max_lines
        /\ SetThread(w, [threads[w] EXCEPT
                           !.pc = "l499", !.nread = @ + 1,
                           !.line = OutputLine(threads[w].nread + 1)])
     \/ SetThread(w, [threads[w] EXCEPT !.pc = "l502"])
     \/ /\ threads[w].nread < max_lines
        /\ SetThread(w, [Raise(threads[w], ErrRead) EXCEPT !.unread = TRUE])
  /\ UNCHANGED <<startupVars, logVars, is_installing, install_btn, progress,
                 status_text, status_label, call_odd, optionVars, fg, envVars,
                 stackVars, fresh>>

\* lines 502-504: process.wait() returns the exit code of the process that
\* has exited, or raises
run_wait(w) ==
  /\ threads[w].pc = "l502"
  /\ \/ \E code \in ExitCodes :
          SetThread(w, [threads[w] EXCEPT
                          !.returncode = <<code>>, !.proc = "reaped",
                          !.pc = IF code = 0 THEN "l505" ELSE "l508"])
     \/ SetThread(w, Raise(threads[w], ErrWait))
  /\ UNCHANGED <<startupVars, logVars, is_installing, install_btn, progress,
                 status_text, status_label, call_odd, optionVars, fg, envVars,
                 stackVars, fresh>>

\* mutant: line 515 is missing
run_finally_515_keeps_flag(w) ==
  /\ threads[w].pc = "l515"
  /\ SetThread(w, [threads[w] EXCEPT !.pc = "l516"])
  /\ UNCHANGED <<startupVars, logVars, is_installing, install_btn, progress,
                 status_text, status_label, call_odd, optionVars, fg, envVars,
                 stackVars, fresh>>

\* mutant: line 516 is missing
run_finally_516_keeps_button(w) ==
  /\ TkReady
  /\ threads[w].pc = "l516"
  /\ SetThread(w, [threads[w] EXCEPT !.pc = "l517"])
  /\ UNCHANGED <<startupVars, logVars, is_installing, install_btn, progress,
                 status_text, status_label, call_odd, optionVars, fg, envVars,
                 stackVars, fresh>>

\* the finally block
run_finally_515(w) ==
  /\ threads[w].pc = "l515"
  /\ is_installing' = FALSE
  /\ SetThread(w, [threads[w] EXCEPT !.pc = "l516"])
  /\ UNCHANGED <<startupVars, logVars, install_btn, progress, status_text,
                 status_label, call_odd, optionVars, fg, envVars, stackVars, fresh>>
run_finally_516(w) ==
  /\ TkReady
  /\ threads[w].pc = "l516"
  /\ install_btn' = "normal"
  /\ SetThread(w, [threads[w] EXCEPT !.pc = "l517"])
  /\ UNCHANGED <<startupVars, logVars, is_installing, progress, status_text,
                 status_label, call_odd, optionVars, fg, envVars, stackVars, fresh>>
\* lines 517-518 as one step: both calls change the progress bar only
run_finally_517(w) ==
  /\ TkReady
  /\ threads[w].pc = "l517"
  /\ progress' = [packed |-> FALSE, running |-> FALSE]
  /\ SetThread(w, DoneThread)
  /\ UNCHANGED <<startupVars, logVars, is_installing, install_btn, status_text,
                 status_label, call_odd, optionVars, fg, envVars, stackVars, fresh>>

\* one step of the thread w
run_installation_of(w) ==
  /\ w \in Threads
  /\ \/ worker_log_append(w)
     \/ worker_log_insert(w)
     \/ worker_update_status(w)
     \/ run_build_command(w)
     \/ run_build_command_raises(w)
     \/ run_popen(w)
     \/ run_read_line(w)
     \/ run_wait(w)
     \/ run_finally_515(w)
     \/ run_finally_516(w)
     \/ run_finally_517(w)

run_installation == \E w \in Threads : run_installation_of(w)

(* --------------------------- specifications ---------------------------- *)
OptionHandlers ==
  \/ select_package_manager

LogHandlers ==
  \/ refresh_log_delete
  \/ refresh_log_loop
  \/ clear_log_ask
  \/ clear_log_answer
  \/ clear_log_603

\* the application driven through the Start Installation button
Next == click_install_btn \/ run_installation
Spec == Init /\ [][Next]_vars

\* the same application, its provisioning script writing more lines
InitLong ==
  /\ now = StartTime
  /\ max_lines = MaxLinesLong
  /\ \E cf \in InitConfigFiles, pr \in InitProbes : Constructed(cf, pr)
SpecLong == InitLong /\ [][Next]_vars

\* the application with start_installation called as a method
NextApi == call_start_installation \/ run_installation
SpecApi == Init /\ [][NextApi]_vars

\* the same, with every thread scheduled again and again and its Tk calls
\* served by the main loop
NextApiFair == call_start_installation_short \/ run_installation
Fairness == \A w \in 1..MaxRunsShort : WF_vars(run_installation_of(w))
SpecApiFair == Init /\ [][NextApiFair]_vars /\ Fairness

\* the application with its options being changed
NextOptions == click_install_btn_short \/ OptionHandlers \/ run_installation
SpecOptions == InitOptions /\ [][NextOptions]_vars

\* the application with its log handlers
NextLog == click_install_btn_short \/ LogHandlers \/ run_installation
SpecLog == Init /\ [][NextLog]_vars

\* the application started with a well-formed config.json and no package
\* manager, its stack list being clicked
InitStacks ==
  /\ now = StartTime
  /\ max_lines = MaxLines
  /\ \E cf \in { c \in ConfigFiles : c.kind = "valid" }, pr \in InitProbes :
       Constructed(cf, pr)
NextStacks == click_stack_listbox
SpecStacks == InitStacks /\ [][NextStacks]_vars

(* ------------------------------ properties ----------------------------- *)
Range(s) == { s[i] : i \in 1..Len(s) }
OthersDone(w) == \A v \in Threads \ {w} : ~Running(v)
\* the step in which thread w returns from run_installation
Returns(w) == threads[w].pc = "l517" /\ threads'[w].pc = "done"
FailedMessage(code) == "Installation failed with code " \o ToString(code)
ErrorMessage(e) == "Error during installation: " \o e
\* every message that a log_message call of the model is given
Messages ==
  {"Log cleared", "Starting installation...",
   "Installation completed successfully!"}
    \cup { Strip(OutputLine(i)) : i \in 1..max_lines }
    \cup { FailedMessage(code) : code \in ExitCodes }
    \cup { ErrorMessage(e) : e \in {ErrToggles, ErrPopen, ErrRead, ErrWait} }

\* C1: a call of start_installation made while is_installing is true changes
\* nothing: the flag stays true, no thread is created (so no further process
\* can be spawned), and the button, the progress bar, the log and the status
\* are as before; this holds for each of the repeated calls during one run.
C1_StartWhileInstallingIsNoOp ==
  [][ (is_installing /\ call_odd' /= call_odd) =>
        /\ is_installing'
        /\ threads' = threads
        /\ UNCHANGED <<install_btn, progress, logVars, status_text, status_label>>
    ]_vars
\* two calls were made and the second, finding the first run in progress,
\* created no thread
C1_Witness ==
  ~call_odd /\ Len(threads) = 1 /\ is_installing /\ Running(1)

\* C2: at every moment at most one thread is executing run_installation,
\* its finally block included.
C2_AtMostOneWorker == Cardinality({ w \in Threads : Running(w) }) <= 1

C4_ExceptionIsLoggedAndFlagCleared ==
  /\ [](\A w \in Threads :
          threads[w].exc /= <<>> =>
            threads[w].pc \in {"l512", "l513", "l515", "l516", "l517"})
  /\ [][ \A w \in Threads :
           (Returns(w) /\ threads[w].exc /= <<>>) =>
             /\ ErrorMessage(threads[w].exc[1]) \in Range(threads[w].wrote)
             /\ (OthersDone(w) => ~is_installing')
       ]_vars
\* a run whose Popen raised is about to return, the error logged, the flag cleared
C4_Witness ==
  \E w \in Threads :
    /\ threads[w].pc = "l517"
    /\ threads[w].exc = <<ErrPopen>>
    /\ Last(threads[w].wrote) = ErrorMessage(ErrPopen)
    /\ LogEntry(now, ErrorMessage(ErrPopen)) \in Range(installation_log)
    /\ ~is_installing

\* the manager the claim C5 describes, for a choice and a registry
Priority == <<"choco", "winget", "scoop">>
ClaimedManager(choice, registry) ==
  IF choice \in Managers THEN choice
  ELSE LET present == { i \in 1..3 : Priority[i] \in DOMAIN registry }
       IN IF present = {} THEN "winget"
          ELSE Priority[CHOOSE i \in present : \A j \in present : i <= j]

\* C5: the command of every run passes, after "-PackageManager", the choice
\* read from pm_var when that is choco, scoop or winget, and for "auto" the
\* first of choco, winget, scoop that is in the registry, or winget when the
\* registry is empty.
C5_ManagerPassedToScript ==
  \A w \in Threads :
    threads[w].cmd /= <<>> =>
      /\ threads[w].choice \in PmChoices
      /\ threads[w].cmd[6] = "-PackageManager"
      /\ threads[w].cmd[7] = ClaimedManager(threads[w].choice, package_managers)
\* "auto" with scoop and winget installed passes winget
C5_Witness ==
  /\ DOMAIN package_managers = {"scoop", "winget"}
  /\ \E w \in Threads :
       /\ threads[w].choice = "auto"
       /\ threads[w].cmd /= <<>>
       /\ threads[w].cmd[7] = "winget"

\* C6: with config.json missing or unparsable the constructor is not left by
\* an exception, and once it has returned config is the empty mapping and
\* the stack list is empty.
C6_BadConfigDoesNotAbortStartup ==
  config_file.kind \in {"missing", "corrupt"} =>
    /\ phase /= "aborted"
    /\ (phase = "mainloop" => config = EmptyConfig /\ stack_listbox = <<>>)

\* C7: after auto_detect_package_managers the registry holds a manager
\* exactly when its own probe ran and exited with code 0; a probe that
\* failed leaves the constructor running.
C7_RegistryHoldsSuccessfulProbes ==
  phase \in {"load_stacks", "mainloop"} =>
    \A m \in Managers :
      m \in DOMAIN package_managers <=>
        (probes[m].kind = "exited" /\ probes[m].returncode = 0)
\* choco timed out, scoop exited with code 1, winget answered
C7_Witness ==
  /\ phase = "mainloop"
  /\ probes["choco"].kind = "timeout"
  /\ probes["scoop"].kind = "exited" /\ probes["scoop"].returncode = 1
  /\ DOMAIN package_managers = {"winget"}

\* C8: every step leaves installation_log as it is, or adds exactly one
\* entry "[HH:MM:SS] <message>\n" at its end with the earlier entries
\* untouched, or is the confirmed clear of clear_log.
C8_LogIsAppendOnly ==
  [][ \/ installation_log' = installation_log
      \/ \E m \in Messages :
           installation_log' = Append(installation_log, LogEntry(now, m))
      \/ /\ fg.op = "clear_log" /\ fg'.op = "clear_log_603"
         /\ installation_log' = <<>>
    ]_vars
\* the worker, the foreground thread and the worker again have logged
C8_Witness ==
  /\ Len(installation_log) = 3
  /\ installation_log[1] = "[12:34:56] Starting installation...\n"
  /\ installation_log[2] = "[12:34:56] Log cleared\n"
  /\ installation_log[3] = "[12:34:56] step 1\n"

C10_RefreshedDisplayEqualsLog ==
  (fresh /\ \A w \in Threads : threads[w].pending = <<>>) =>
    log_text = installation_log

\* the messages of the process's first k output lines, as line 499 logs them
LineMessages(k) == [i \in 1..k |-> Strip(OutputLine(i))]
\* thread t has appended the entry of line 505, 508 or 512
TerminalLogged(t) ==
  \/ t.pc \in {"l505", "l508", "l512"} /\ t.pending /= <<>>
  \/ t.pc \in {"l506", "l509", "l513", "l515", "l516", "l517"}
\* the entries a thread that has not logged its terminal entry has appended
LoggedSoFar(t) ==
  IF t.pc = "l474" /\ t.pending = <<>> THEN <<>>
  ELSE <<"Starting installation...">>
         \o LineMessages(IF t.pc = "l499" /\ t.pending = <<>>
                           THEN t.nread - 1 ELSE t.nread)
\* every append of a thread to its run's entries is an append of the same
\* message, formatted, at the end of installation_log
AppendsGoToLog ==
  \A w \in Threads :
    (threads'[w].pc /= "done" /\ threads'[w].wrote /= threads[w].wrote) =>
      \E m \in Messages :
        /\ threads'[w].wrote = Append(threads[w].wrote, m)
        /\ installation_log' = Append(installation_log, LogEntry(now, m))

\* C11 as stated: a run's entries are "Starting installation...", then the
\* process's output lines in the order it wrote them, then the terminal
\* entry; and a terminal entry of any kind (success, failure or error) is
\* appended only when every line the process wrote has been logged and the
\* process has exited (a run whose process never started has neither).
C11_TerminalAfterAllOutputAndExit ==
  \A w \in Threads :
    LET t == threads[w]
    IN IF TerminalLogged(t)
         THEN /\ Len(t.wrote) = t.nread + 2
              /\ SubSeq(t.wrote, 1, t.nread + 1) =
                   <<"Starting installation...">> \o LineMessages(t.nread)
              /\ (t.proc /= "none" => ~t.unread /\ t.proc = "reaped")
         ELSE Running(w) => t.wrote = LoggedSoFar(t)

\* C11 as amended: after every step a run's entries are "Starting
\* installation...", then the output lines read so far in the order the
\* process wrote them, then the
\* terminal entry, each appended at the end of installation_log; the success
\* and the failure entry are appended only when every line the process wrote
\* has been logged and the process has exited, while the error entry follows
\* the lines logged before the exception, whatever the process has done.
C11_OutputLoggedInOrderThenTerminal ==
  [][ /\ AppendsGoToLog
      /\ \A w \in 1..Len(threads') :
           LET t == threads'[w]
           IN IF TerminalLogged(t)
                THEN /\ t.wrote = <<"Starting installation...">>
                                    \o LineMessages(t.nread)
                                    \o <<Last(t.wrote)>>
                     /\ IF t.exc /= <<>>
                          THEN Last(t.wrote) = ErrorMessage(t.exc[1])
                          ELSE /\ ~t.unread
                               /\ t.proc = "reaped"
                               /\ Last(t.wrote) =
                                    IF t.returncode[1] = 0
                                      THEN "Installation completed successfully!"
                                      ELSE FailedMessage(t.returncode[1])
                ELSE t.pc /= "done" => t.wrote = LoggedSoFar(t)
    ]_vars
\* a run whose process wrote two lines and exited with code 0 is about to
\* return: its four entries are the log
C11_Witness ==
  /\ \E w \in Threads :
       /\ threads[w].pc = "l517"
       /\ threads[w].nread = 2
       /\ ~threads[w].unread
       /\ threads[w].proc = "reaped"
       /\ threads[w].wrote = <<"Starting installation...", "step 1", "step 2",
                               "Installation completed successfully!">>
  /\ installation_log =
       << "[12:34:56] Starting installation...\n",
          "[12:34:56] step 1\n",
          "[12:34:56] step 2\n",
          "[12:34:56] Installation completed successfully!\n" >>

\* the items of ps with ", " between them, built from the left
CommaJoined(ps) ==
  LET F[k \in 0..Len(ps)] ==
        IF k = 0 THEN ""
        ELSE IF k = 1 THEN ps[1]
        ELSE F[k - 1] \o ", " \o ps[k]
  IN F[Len(ps)]
\* the positions in the configuration of the stacks that are to be listed
ListedPositions ==
  { i \in 1..Len(config.stacks) : config.stacks[i].enabled \in {"true", "absent"} }
\* the k-th smallest element of a set of positions
Nth(S, k) == CHOOSE i \in S : Cardinality({ j \in S : j <= i }) = k
\* the stack list holds the names of the listed stacks, once each, in
\* configuration order
ListShowsEnabledStacks ==
  /\ Len(stack_listbox) = Cardinality(ListedPositions)
  /\ \A k \in 1..Len(stack_listbox) :
       stack_listbox[k] = config.stacks[Nth(ListedPositions, k)].name
\* what may precede and follow the "Packages: " line in a detail text
DetailHeads == { "Stack: " \o n \o "\n\n" : n \in StackNames }
DetailTails ==
  { "\n" \o py \o vs : py \in {"", "Python Packages: p, q\n\n"},
                       vs \in {"", "VS Code Extensions: e\n\n"} }
\* text has the line "Packages: " followed by the items of ps joined by ", "
HasPackagesLine(text, ps) ==
  \E head \in DetailHeads, tail \in DetailTails :
    text = head \o "Packages: " \o CommaJoined(ps) \o "\n" \o tail

\* C12: with a "stacks" mapping in the configuration the stack list shows
\* exactly the names of the stacks whose "enabled" is true or absent, once
\* each and in configuration order; and a click that selects a listed stack
\* leaves in the detail view the line "Packages: " followed by that stack's
\* package identifiers, in configuration order, joined by ", ".
C12_ListAndDetailsOfSelectedStack ==
  [][ /\ config.has_stacks => ListShowsEnabledStacks
      /\ \A k \in 1..Len(stack_listbox) :
           (k \notin selection /\ selection' = selection \cup {k}) =>
             HasPackagesLine(stack_details',
                             config.stacks[Nth(ListedPositions, k)].packages)
    ]_vars

\* a call of start_installation that is accepted
AcceptedCall ==
  /\ call_start_installation
  /\ is_installing'
  /\ threads' = Append(threads, NewThread)

\* C13: under fair scheduling, with every read of the pipe and the wait for
\* the process returning, every thread that was started returns from
\* run_installation, whichever path it takes; whenever is_installing is true
\* a state follows in which it is false, the Start Installation button is
\* enabled and a call of start_installation would be accepted; and every
\* call made while is_installing is false sets the flag and starts a thread.
C13_InstallationEndsAndRestartIsAccepted ==
  /\ \A w \in 1..MaxRunsShort :
       (w \in Threads /\ Running(w)) ~> (w \in Threads /\ ~Running(w))
  /\ is_installing ~>
       (~is_installing /\ install_btn = "normal" /\ ENABLED AcceptedCall)
  /\ [][ (~is_installing /\ call_odd' /= call_odd) =>
           /\ is_installing'
           /\ threads' = Append(threads, NewThread)
       ]_vars
\* the installation has ended: the thread has returned, the flag is false,
\* the button is enabled and a further call would be accepted
C13_Witness ==
  /\ Len(threads) >= 1
  /\ \A w \in Threads : ~Running(w)
  /\ ~is_installing
  /\ install_btn = "normal"
  /\ ENABLED AcceptedCall

\* C14: whenever is_installing is false and no thread is inside
\* run_installation, be it before the first run or after a run has ended on
\* any path, the status indicator shows "Ready" and not "Working".
C14_IndicatorReadyWhenIdle ==
  (~is_installing /\ \A w \in Threads : ~Running(w)) => status_label = "Ready"

=============================================================================
